---- MODULE Spec2Model ----
(***************************************************************************)
(* Model of OrmerodLedSensor.cpp (Version2-differential-IR): the timer     *)
(* interrupt that steps a 16-phase schedule over the ADC, the LEDs and the *)
(* five rolling accumulators, the startup handshake of runIRsensorAndFan,  *)
(* and the fan controller checkFan.                                        *)
(*                                                                         *)
(* The ISR runs to completion and cannot be preempted by the foreground,   *)
(* so it is one action.  Foreground code is split at every access to a     *)
(* variable the ISR writes; a uint16_t read with interrupts enabled is two *)
(* byte reads.  Single-bit port operations (PORTA |= bit, PORTA &= ~bit)   *)
(* are atomic, as the comment at line 349 of the source states, so each    *)
(* port line is a variable of its own.                                     *)
(*                                                                         *)
(* Spec is the scheduler: the ISR over a family of input waveforms, with   *)
(* the startup wait that sets the running flag.  SpecFan is the fan        *)
(* controller called again and again while the fan accumulators take any   *)
(* of a set of values around the thresholds, at any point of its run.      *)
(* SpecSensor is the main loop over IR sums on both sides of every         *)
(* threshold, in either mode.  SpecLoop is the whole program, the ISR      *)
(* interleaved with the main loop and checkFan, through the first ticks    *)
(* and across the wrap of the 16-bit tick counter.  SpecPorts is SpecLoop  *)
(* with the input also at full scale, so that the output lines change.     *)
(* SpecLive is the whole program with the timer and the foreground each    *)
(* weakly fair.                                                            *)
(***************************************************************************)
EXTENDS Integers, Sequences, FiniteSets, TLC

\* ------------------------------------------------------------------ bounds

\* Single firings of the timer interrupt are followed up to this tick.
MaxTicks == 580

\* The startup wait "while (tickCounter < 4) {}" is left no later than this tick.
MaxStartTick == 20

\* The timer interrupt also fires one at a time in the last ticks before the tick
\* counter wraps from 65535 to 0.
MaxWrapTicks == 500

\* Invocations of checkFan by the main loop are counted up to this number.
MaxFanChecks == 133

\* ------------------------------------------------------- program constants

cyclesAveragedIR == 8
fanSamplesAveraged == 16
interruptFreq == 8000
fanSampleFreq == 16
fanSampleIntervalTicks == interruptFreq \div fanSampleFreq
fanOnSeconds == 2

thermistorConnectedThreshold1K == 30
thermistorOffThreshold1K == 340
thermistorOnThreshold1K == 400
thermistorConnectedThreshold4K7 == 7
thermistorOffThreshold4K7 == 78
thermistorOnThreshold4K7 == 92

offsetInit1K == 512
offsetInit4K7 == 1023

\* Values written to ADMUX.
MuxPhototransistor == 1
MuxThermistorSingle == 3
MuxDiffAdc3Pos == 19
MuxDiffAdc4Pos == 51

\* ------------------------------------------------------ 16-bit arithmetic

Word == 65536

Add16(a, b) == (a + b) % Word

Sub16(a, b) == (a - b + Word) % Word

RECURSIVE BitAnd(_, _)
BitAnd(a, b) ==
    IF a = 0 \/ b = 0 THEN 0
    ELSE (IF a % 2 = 1 /\ b % 2 = 1 THEN 1 ELSE 0) + 2 * BitAnd(a \div 2, b \div 2)

RECURSIVE BitXor(_, _)
BitXor(a, b) ==
    IF a = 0 THEN b
    ELSE IF b = 0 THEN a
    ELSE (IF a % 2 = b % 2 THEN 0 ELSE 1) + 2 * BitXor(a \div 2, b \div 2)

RECURSIVE SumOver(_, _)
SumOver(f, n) == IF n = 0 THEN 0 ELSE f[n - 1] + SumOver(f, n - 1)

\* ------------------------------------------------------------------- state

VARIABLES
    \* IR accumulators (lines 86-88)
    nearSumIR, farSumIR, offSumIR,
    nearLedReadings, farLedReadings, offReadings,
    nearLedIndex, farLedIndex, offIndex,
    \* fan accumulators and fan controller state (lines 123-129)
    fanReadings, fanOffsets, fanReadingSum, fanOffsetSum, fanIndex,
    thermistorConnectedThreshold, thermistorOnThreshold, thermistorOffThreshold,
    fan1Kmode, lastFanSampleTicks, fanChangeCount,
    \* general (lines 141-142)
    tickCounter, running,
    \* hardware: port lines, the ADC multiplexer register and the mode-select input
    \* pin (TRUE when it reads high)
    farLed, nearLed, fanOn, out10K, out13K, ADMUX, duetInput,
    \* the analog input: the conversion read at tick t is (adcBase + adcStep*t) mod 1024
    adcBase, adcStep,
    \* foreground position, the output level whose SetOutput function the main loop
    \* has selected, and the locals of checkFan
    pc, level, locReading, locOffset,
    \* whether the running checkFan invocation read fanReadingSum >= fanOffsetSum
    sawBackwards,
    \* history: what the last ISR firing routed, the last samples routed into each
    \* accumulator, the routes of the last firings made with running set, and the
    \* number of checkFan invocations completed since the one that switched the fan on
    routed, hist, recent, fanCycle,
    \* history: the LED and mux configuration under which the conversion now in the
    \* ADC data register was sampled, and the number of checkFan invocations made
    \* by the main loop
    sampledUnder, fanChecks

irVars == <<nearSumIR, farSumIR, offSumIR, nearLedReadings, farLedReadings,
            offReadings, nearLedIndex, farLedIndex, offIndex>>

fanAccVars == <<fanReadings, fanOffsets, fanReadingSum, fanOffsetSum, fanIndex>>

setupVars == <<thermistorConnectedThreshold, thermistorOnThreshold,
               thermistorOffThreshold, fan1Kmode, adcBase, adcStep, duetInput>>

ledVars == <<farLed, nearLed>>

outVars == <<out10K, out13K, level>>

fanCtlVars == <<fanOn, fanChangeCount, locReading, locOffset, fanCycle,
               sawBackwards>>

histVars == <<routed, hist, recent, sampledUnder, fanChecks>>

vars == <<irVars, fanAccVars, setupVars, ledVars, outVars, fanCtlVars, histVars,
          lastFanSampleTicks, tickCounter, running, ADMUX, pc>>

\* ----------------------------------------------------------- initial state

Accumulators == {"near", "far", "off", "fan", "fanOffset"}

\* The waveforms of the analog input that are checked.
AdcBases == {0, 511, 1023}

AdcSteps == {0, 1, 67}

\* The state at sei() in runIRsensorAndFan (line 416): main has set the ports, read
\* the series-resistor sense pin and filled the fan accumulators (lines 494-555),
\* runIRsensorAndFan has cleared the IR accumulators and armed timer and ADC.
readingInit(mode1K) ==
    IF mode1K THEN offsetInit1K - thermistorConnectedThreshold1K
    ELSE offsetInit4K7 - thermistorConnectedThreshold4K7

offsetInit(mode1K) == IF mode1K THEN offsetInit1K ELSE offsetInit4K7

Init ==
    /\ fan1Kmode \in BOOLEAN
    /\ thermistorConnectedThreshold =
         (IF fan1Kmode THEN thermistorConnectedThreshold1K
          ELSE thermistorConnectedThreshold4K7) * fanSamplesAveraged
    /\ thermistorOffThreshold =
         (IF fan1Kmode THEN thermistorOffThreshold1K
          ELSE thermistorOffThreshold4K7) * fanSamplesAveraged
    /\ thermistorOnThreshold =
         (IF fan1Kmode THEN thermistorOnThreshold1K
          ELSE thermistorOnThreshold4K7) * fanSamplesAveraged
    /\ fanReadings = [i \in 0..(fanSamplesAveraged - 1) |-> readingInit(fan1Kmode)]
    /\ fanOffsets = [i \in 0..(fanSamplesAveraged - 1) |-> offsetInit(fan1Kmode)]
    /\ fanReadingSum = (fanSamplesAveraged * readingInit(fan1Kmode)) % Word
    /\ fanOffsetSum = (fanSamplesAveraged * offsetInit(fan1Kmode)) % Word
    /\ fanIndex = 0
    /\ fanChangeCount = 0
    /\ lastFanSampleTicks = 0
    /\ running = FALSE
    /\ nearLedReadings = [i \in 0..(cyclesAveragedIR - 1) |-> 0]
    /\ farLedReadings = [i \in 0..(cyclesAveragedIR - 1) |-> 0]
    /\ offReadings = [i \in 0..(cyclesAveragedIR - 1) |-> 0]
    /\ nearLedIndex = 0 /\ farLedIndex = 0 /\ offIndex = 0
    /\ nearSumIR = 0 /\ farSumIR = 0 /\ offSumIR = 0
    /\ tickCounter = 0
    /\ ADMUX = MuxPhototransistor
    /\ farLed = FALSE /\ nearLed = FALSE /\ fanOn = FALSE
    /\ out10K = FALSE /\ out13K = FALSE
    /\ adcBase \in AdcBases /\ adcStep \in AdcSteps
    /\ pc = "wait"
    /\ locReading = 0 /\ locOffset = 0
    /\ routed = [acc |-> "none", val |-> 0]
    /\ hist = [a \in Accumulators |-> <<>>]
    /\ recent = <<>>
    /\ fanCycle = 0
    /\ sawBackwards = FALSE
    /\ duetInput = TRUE
    /\ level = "none"
    /\ sampledUnder = [far |-> FALSE, near |-> FALSE, mux |-> 0]
    /\ fanChecks = 0

\* ------------------------------------------------------- the timer interrupt

\* The ADC data register at the time the ISR reads it.
ADC == (adcBase + adcStep * tickCounter) % 1024

\* NewSum without the subtraction of the slot that is overwritten.
NewSumKeepsOld(sum, old, sample) == Add16(sum, sample)

\* sum - slot[cursor] + sample, in uint16_t (lines 175, 181, 187, 201, 215, 229, 240, 261)
NewSum(sum, old, sample) == Add16(Sub16(sum, old), sample)

\* NextIndex masked with n instead of n - 1.
NextIndexMaskN(index, n) == BitAnd(index + 1, n)

\* (index + 1) & (n - 1) (lines 177, 189, 203, 217, 231, 242, 263)
NextIndex(index, n) == BitAnd(index + 1, n - 1)

\* Dispatch with phase 12 taken for a dummy phase.
DispatchDrops12(phase) ==
    CASE phase = 0 -> "case0"
      [] phase \in {3, 6, 9} -> "case3"
      [] phase \in {1, 4, 7, 10} -> "case1"
      [] phase \in {2, 5, 8} -> "case2"
      [] phase = 11 -> "case11"
      [] phase \in {12, 13, 14} -> "case13"
      [] phase = 15 -> "case15"

\* The case labels of switch (locTickCounter & 0x0f) (lines 164-276).
Dispatch(phase) ==
    CASE phase = 0 -> "case0"
      [] phase \in {3, 6, 9} -> "case3"
      [] phase \in {1, 4, 7, 10} -> "case1"
      [] phase \in {2, 5, 8} -> "case2"
      [] phase = 11 -> "case11"
      [] phase = 12 -> "case12"
      [] phase \in {13, 14} -> "case13"
      [] phase = 15 -> "case15"

\* Collects with the guard missing in case 12.
CollectsUngated12(label) == running \/ label = "case12"

\* if (running), the guard of every accumulator update (lines 168, 199, 213, 227, 238, 259)
Collects(label) == running

PushNear(v) ==
    /\ nearSumIR' = NewSum(nearSumIR, nearLedReadings[nearLedIndex], v)
    /\ nearLedReadings' = [nearLedReadings EXCEPT ![nearLedIndex] = v]
    /\ nearLedIndex' = NextIndex(nearLedIndex, cyclesAveragedIR)
    /\ routed' = [acc |-> "near", val |-> v]
    /\ UNCHANGED <<farSumIR, farLedReadings, farLedIndex, offSumIR, offReadings,
                   offIndex, fanAccVars>>

PushFar(v) ==
    /\ farSumIR' = NewSum(farSumIR, farLedReadings[farLedIndex], v)
    /\ farLedReadings' = [farLedReadings EXCEPT ![farLedIndex] = v]
    /\ farLedIndex' = NextIndex(farLedIndex, cyclesAveragedIR)
    /\ routed' = [acc |-> "far", val |-> v]
    /\ UNCHANGED <<nearSumIR, nearLedReadings, nearLedIndex, offSumIR, offReadings,
                   offIndex, fanAccVars>>

PushOff(v) ==
    /\ offSumIR' = NewSum(offSumIR, offReadings[offIndex], v)
    /\ offReadings' = [offReadings EXCEPT ![offIndex] = v]
    /\ offIndex' = NextIndex(offIndex, cyclesAveragedIR)
    /\ routed' = [acc |-> "off", val |-> v]
    /\ UNCHANGED <<nearSumIR, nearLedReadings, nearLedIndex, farSumIR,
                   farLedReadings, farLedIndex, fanAccVars>>

PushFanReading(v) ==
    /\ fanReadingSum' = NewSum(fanReadingSum, fanReadings[fanIndex], v)
    /\ fanReadings' = [fanReadings EXCEPT ![fanIndex] = v]
    /\ fanIndex' = NextIndex(fanIndex, fanSamplesAveraged)
    /\ routed' = [acc |-> "fan", val |-> v]
    /\ UNCHANGED <<irVars, fanOffsets, fanOffsetSum>>

PushFanOffset(v) ==
    /\ fanOffsetSum' = NewSum(fanOffsetSum, fanOffsets[fanIndex], v)
    /\ fanOffsets' = [fanOffsets EXCEPT ![fanIndex] = v]
    /\ routed' = [acc |-> "fanOffset", val |-> v]
    /\ UNCHANGED <<irVars, fanReadings, fanReadingSum, fanIndex>>

PushNone ==
    /\ routed' = [acc |-> "none", val |-> 0]
    /\ UNCHANGED <<irVars, fanAccVars>>

\* FanToReading that ignores the hardware variant's offset pass.
FanToReadingAlways(mode1K, loc) == TRUE

\* Which fan accumulator case 0 writes (lines 170-190): TRUE for fanReadings.
FanToReading(mode1K, loc) == ~mode1K \/ BitAnd(loc, 16) = 0

\* FanSample adding the offset 0x0200 instead of toggling the bit.
FanSampleAdds(mode1K, adcVal) == IF mode1K THEN adcVal + 512 ELSE adcVal

\* The sample case 0 stores (line 172: adcVal ^= 0x0200 in 1K mode).
FanSample(mode1K, adcVal) == IF mode1K THEN BitXor(adcVal, 512) ELSE adcVal

\* The accumulator update of each case.
Route(label, loc, adcVal) ==
    CASE label = "case0" ->
           IF FanToReading(fan1Kmode, loc)
           THEN PushFanReading(FanSample(fan1Kmode, adcVal))
           ELSE PushFanOffset(FanSample(fan1Kmode, adcVal))
      [] label \in {"case3", "case12"} -> PushNear(adcVal)
      [] label = "case1" -> PushOff(adcVal)
      [] label \in {"case2", "case11"} -> PushFar(adcVal)
      [] OTHER -> PushNone

\* FarLedAfter doing in case 1 what the comment at line 219 says.
FarLedAfterAsCommented(label, led) ==
    CASE label \in {"case0", "case3", "case1"} -> TRUE
      [] OTHER -> led

\* PORTB |= PortBFarLedMask (192, 205); PORTB &= ~PortBFarLedMask (219)
FarLedAfter(label, led) ==
    CASE label \in {"case0", "case3"} -> TRUE
      [] label = "case1" -> FALSE
      [] OTHER -> led

\* NearLedAfter switching the near LED off one sample late.
NearLedAfterOffLate(label, led) ==
    CASE label = "case1" -> TRUE
      [] label \in {"case3", "case11"} -> FALSE
      [] OTHER -> led

\* PORTA |= BITVAL(PortANearLedBit) (220); PORTA &= ~BITVAL(PortANearLedBit) (233, 244)
NearLedAfter(label, led) ==
    CASE label = "case1" -> TRUE
      [] label \in {"case2", "case11"} -> FALSE
      [] OTHER -> led

\* MuxAfter with the polarity of the differential pair not alternating.
MuxAfterOnePolarity(label, mode1K, loc, mux) ==
    CASE label = "case11" -> IF mode1K THEN MuxDiffAdc4Pos ELSE MuxThermistorSingle
      [] label = "case15" -> MuxPhototransistor
      [] OTHER -> mux

\* ADMUX writes of case 11 (245-254) and case 15 (274)
MuxAfter(label, mode1K, loc, mux) ==
    CASE label = "case11" ->
           IF mode1K
           THEN (IF BitAnd(loc, 16) # 0 THEN MuxDiffAdc3Pos ELSE MuxDiffAdc4Pos)
           ELSE MuxThermistorSingle
      [] label = "case15" -> MuxPhototransistor
      [] OTHER -> mux

\* ISRBody with the tick counter kept in eight bits.
ISRBodyByteTick ==
    LET adcVal == BitAnd(ADC, 1023)
        loc == tickCounter % 256
        label == Dispatch(BitAnd(loc, 15))
    IN  /\ IF Collects(label) THEN Route(label, loc, adcVal) ELSE PushNone
        /\ farLed' = FarLedAfter(label, farLed)
        /\ nearLed' = NearLedAfter(label, nearLed)
        /\ ADMUX' = MuxAfter(label, fan1Kmode, loc, ADMUX)
        /\ tickCounter' = (tickCounter + 1) % 256

\* ISR(TIM1_COMPB_vect), lines 150-283.
ISRBody ==
    LET adcVal == BitAnd(ADC, 1023)
        loc == tickCounter % 256
        label == Dispatch(BitAnd(loc, 15))
    IN  /\ IF Collects(label) THEN Route(label, loc, adcVal) ELSE PushNone
        /\ farLed' = FarLedAfter(label, farLed)
        /\ nearLed' = NearLedAfter(label, nearLed)
        /\ ADMUX' = MuxAfter(label, fan1Kmode, loc, ADMUX)
        /\ tickCounter' = Add16(tickCounter, 1)

\* The history kept beside the ISR: the samples routed into each accumulator (the
\* last Capacity of them), the routes of the last 16 firings made with running set,
\* and the configuration the conversion started by this compare match samples: the
\* one the ISR finds, since it changes LEDs and mux only after the sample-and-hold
\* (line 163).
Capacity(a) == IF a \in {"fan", "fanOffset"} THEN fanSamplesAveraged ELSE cyclesAveragedIR

LastN(s, n) == IF Len(s) <= n THEN s ELSE SubSeq(s, Len(s) - n + 1, Len(s))

Record ==
    /\ hist' = IF routed'.acc = "none" THEN hist
               ELSE [hist EXCEPT ![routed'.acc] =
                        LastN(Append(@, routed'.val), Capacity(routed'.acc))]
    /\ recent' = IF running THEN LastN(Append(recent, routed'.acc), 16) ELSE recent
    /\ sampledUnder' = [far |-> farLed, near |-> nearLed, mux |-> ADMUX]
    /\ UNCHANGED fanChecks

\* The ticks at which single firings of the timer interrupt are followed.
TickInBounds == tickCounter < MaxTicks \/ tickCounter >= Word - MaxWrapTicks

\* TimerISR storing a whole byte to PORTA for the near LED, which clears the
\* two output lines.
TimerISRStoresPort ==
    /\ TickInBounds
    /\ pc \in {"wait", "start"} => tickCounter < MaxStartTick
    /\ ISRBody
    /\ Record
    /\ out10K' = FALSE /\ out13K' = FALSE
    /\ UNCHANGED <<setupVars, level, fanCtlVars, lastFanSampleTicks, running, pc>>

TimerISR ==
    /\ TickInBounds
    /\ pc \in {"wait", "start"} => tickCounter < MaxStartTick
    /\ ISRBody
    /\ Record
    /\ UNCHANGED <<setupVars, outVars, fanCtlVars, lastFanSampleTicks, running, pc>>

\* --------------------------------------------------- runIRsensorAndFan startup

\* while (tickCounter < 4) {} (line 418)
WaitTicks ==
    /\ pc = "wait"
    /\ ~(tickCounter < 4)
    /\ pc' = "start"
    /\ UNCHANGED <<irVars, fanAccVars, setupVars, ledVars, outVars, fanCtlVars,
                   histVars, lastFanSampleTicks, tickCounter, running, ADMUX>>

\* running = true; lastFanSampleTicks = 0; (lines 419-420)
StartRunning ==
    /\ pc = "start"
    /\ running' = TRUE
    /\ lastFanSampleTicks' = 0
    /\ pc' = "loop"
    /\ UNCHANGED <<irVars, fanAccVars, setupVars, ledVars, outVars, fanCtlVars,
                   histVars, tickCounter, ADMUX>>

Next == TimerISR \/ WaitTicks \/ StartRunning

Spec == Init /\ [][Next]_vars

\* ------------------------------------------------------------------ checkFan

\* More invocations than the hold time are not told apart.
MaxFanCycle == 33

\* The low byte of a uint16_t, and the value made of a low byte read earlier and
\* the high byte read now: checkFan reads the volatile sums with interrupts enabled,
\* one byte at a time, low byte first.
LowByte(x) == x % 256

WithHighByte(low, x) == (x \div 256) * 256 + low

\* fanReadingSum >= fanOffsetSum (line 331), the negation of line 311
ReadsBackwards(reading, offset) == reading >= offset

\* OffEligible without the test that the thermistor is connected.
OffEligibleNoLower(diff) == diff <= thermistorOffThreshold

\* fanDiff >= thermistorConnectedThreshold && fanDiff <= thermistorOffThreshold (line 314)
OffEligible(diff) ==
    diff >= thermistorConnectedThreshold /\ diff <= thermistorOffThreshold

\* fanDiff < thermistorConnectedThreshold || fanDiff >= thermistorOnThreshold (332-333)
OnWanted(diff) == diff < thermistorConnectedThreshold \/ diff >= thermistorOnThreshold

\* FanHoldCount one too small.
FanHoldCountShort == (fanOnSeconds * fanSampleFreq) - 2

\* (fanOnSeconds * fanSampleFreq) - 1 (line 336)
FanHoldCount == (fanOnSeconds * fanSampleFreq) - 1

fanFrame == <<irVars, fanAccVars, setupVars, ledVars, outVars, histVars,
              lastFanSampleTicks, tickCounter, running, ADMUX>>

\* PORTA |= BITVAL(PortAFanControlBit); fanChangeCount = ...; (lines 335-336)
TurnFanOn ==
    /\ fanOn' = TRUE
    /\ fanChangeCount' = FanHoldCount
    /\ fanCycle' = 0

\* if ((PORTA & BITVAL(PortAFanControlBit)) != 0) (line 308)
Fan308 ==
    /\ pc = "fan308"
    /\ pc' = IF fanOn THEN "on311lo" ELSE "off331lo"
    /\ fanCycle' = IF fanOn /\ fanCycle < MaxFanCycle THEN fanCycle + 1 ELSE fanCycle
    /\ sawBackwards' = FALSE
    /\ UNCHANGED <<fanOn, fanChangeCount, locReading, locOffset, fanFrame>>

\* The two byte reads of fanReadingSum in the comparisons of lines 311 and 331.
FanReadReadingLow ==
    /\ pc \in {"on311lo", "off331lo"}
    /\ locReading' = LowByte(fanReadingSum)
    /\ pc' = IF pc = "on311lo" THEN "on311hi" ELSE "off331hi"
    /\ UNCHANGED <<fanOn, fanChangeCount, locOffset, fanCycle, sawBackwards,
                   fanFrame>>

FanReadReadingHigh ==
    /\ pc \in {"on311hi", "off331hi"}
    /\ locReading' = WithHighByte(locReading, fanReadingSum)
    /\ pc' = IF pc = "on311hi" THEN "on311olo" ELSE "off331olo"
    /\ UNCHANGED <<fanOn, fanChangeCount, locOffset, fanCycle, sawBackwards,
                   fanFrame>>

\* The low byte of fanOffsetSum, in lines 311, 313, 331 and 332.
FanReadOffsetLow ==
    /\ pc \in {"on311olo", "off331olo", "on313lo", "off332lo"}
    /\ locOffset' = LowByte(fanOffsetSum)
    /\ pc' = CASE pc = "on311olo" -> "on311ohi"
               [] pc = "off331olo" -> "off331ohi"
               [] pc = "on313lo" -> "on313hi"
               [] pc = "off332lo" -> "off332hi"
    /\ UNCHANGED <<fanOn, fanChangeCount, locReading, fanCycle, sawBackwards,
                   fanFrame>>

\* if (fanReadingSum < fanOffsetSum) with the fan on (line 311): the high byte of
\* fanOffsetSum and the comparison.
On311 ==
    /\ pc = "on311ohi"
    /\ LET offset == WithHighByte(locOffset, fanOffsetSum)
       IN  /\ sawBackwards' = ReadsBackwards(locReading, offset)
           /\ pc' = IF ReadsBackwards(locReading, offset) THEN "wdt" ELSE "on313lo"
    /\ locReading' = 0 /\ locOffset' = 0
    /\ UNCHANGED <<fanOn, fanChangeCount, fanCycle, fanFrame>>

\* Off331 taking a reading at or above the offset for a cold thermistor.
Off331NoBackwardsCase ==
    /\ pc = "off331ohi"
    /\ LET offset == WithHighByte(locOffset, fanOffsetSum)
       IN  /\ sawBackwards' = ReadsBackwards(locReading, offset)
           /\ pc' = IF ReadsBackwards(locReading, offset) THEN "wdt" ELSE "off332lo"
    /\ locReading' = 0 /\ locOffset' = 0
    /\ UNCHANGED <<fanOn, fanChangeCount, fanCycle>>
    /\ UNCHANGED fanFrame

\* if (fanReadingSum >= fanOffsetSum || ... with the fan off (line 331): the high
\* byte of fanOffsetSum, the comparison, and lines 335-336 when it holds.
Off331 ==
    /\ pc = "off331ohi"
    /\ LET offset == WithHighByte(locOffset, fanOffsetSum)
       IN  /\ sawBackwards' = ReadsBackwards(locReading, offset)
           /\ IF ReadsBackwards(locReading, offset)
              THEN pc' = "wdt" /\ TurnFanOn
              ELSE pc' = "off332lo" /\ UNCHANGED <<fanOn, fanChangeCount, fanCycle>>
    /\ locReading' = 0 /\ locOffset' = 0
    /\ UNCHANGED fanFrame

\* fanDiff = fanOffsetSum - fanReadingSum (lines 313 and 332), as its last byte,
\* the high byte of fanReadingSum, is read.
FanDiff == Sub16(locOffset, WithHighByte(locReading, fanReadingSum))

\* The high byte of fanOffsetSum in fanDiff = fanOffsetSum - fanReadingSum
\* (lines 313 and 332).
FanReadOffsetHigh ==
    /\ pc \in {"on313hi", "off332hi"}
    /\ locOffset' = WithHighByte(locOffset, fanOffsetSum)
    /\ pc' = IF pc = "on313hi" THEN "on313rlo" ELSE "off332rlo"
    /\ UNCHANGED <<fanOn, fanChangeCount, locReading, fanCycle, sawBackwards,
                   fanFrame>>

\* The low byte of fanReadingSum in fanDiff = fanOffsetSum - fanReadingSum.
FanDiffReadingLow ==
    /\ pc \in {"on313rlo", "off332rlo"}
    /\ locReading' = LowByte(fanReadingSum)
    /\ pc' = IF pc = "on313rlo" THEN "on313rhi" ELSE "off332rhi"
    /\ UNCHANGED <<fanOn, fanChangeCount, locOffset, fanCycle, sawBackwards,
                   fanFrame>>

\* On313 returning to the main loop without passing wdt_reset().
On313NoKick ==
    /\ pc = "on313rhi"
    /\ LET diff == FanDiff
       IN  IF OffEligible(diff)
           THEN IF fanChangeCount = 0
                THEN fanOn' = FALSE /\ UNCHANGED fanChangeCount
                ELSE fanChangeCount' = fanChangeCount - 1 /\ UNCHANGED fanOn
           ELSE UNCHANGED <<fanOn, fanChangeCount>>
    /\ pc' = "advance"
    /\ locReading' = 0 /\ locOffset' = 0
    /\ UNCHANGED <<fanCycle, sawBackwards, fanFrame>>

\* Lines 313-323 with the fan on: fanDiff, and the fan switched off or the hold
\* counter decremented when fanDiff is in the off range.
On313 ==
    /\ pc = "on313rhi"
    /\ LET diff == FanDiff
       IN  IF OffEligible(diff)
           THEN IF fanChangeCount = 0
                THEN fanOn' = FALSE /\ UNCHANGED fanChangeCount
                ELSE fanChangeCount' = fanChangeCount - 1 /\ UNCHANGED fanOn
           ELSE UNCHANGED <<fanOn, fanChangeCount>>
    /\ pc' = "wdt"
    /\ locReading' = 0 /\ locOffset' = 0
    /\ UNCHANGED <<fanCycle, sawBackwards, fanFrame>>

\* Lines 332-337 with the fan off: fanDiff, and the fan switched on when the
\* thermistor reads disconnected or hot.
Off332 ==
    /\ pc = "off332rhi"
    /\ LET diff == FanDiff
       IN  IF OnWanted(diff)
           THEN TurnFanOn
           ELSE UNCHANGED <<fanOn, fanChangeCount, fanCycle>>
    /\ pc' = "wdt"
    /\ locReading' = 0 /\ locOffset' = 0
    /\ UNCHANGED <<sawBackwards, fanFrame>>

\* wdt_reset() and the return to line 480.
KickWatchdog ==
    /\ pc = "wdt"
    /\ pc' = "advance"
    /\ UNCHANGED <<fanOn, fanChangeCount, locReading, locOffset, fanCycle,
                   sawBackwards, fanFrame>>

\* AdvanceFanSample setting the time of the last fan sample to the current tick.
AdvanceFanSampleToNow ==
    /\ pc = "advance"
    /\ lastFanSampleTicks' = tickCounter
    /\ pc' = "loop"
    /\ UNCHANGED <<irVars, fanAccVars, setupVars, ledVars, outVars, fanCtlVars,
                   histVars, tickCounter, running, ADMUX>>

\* lastFanSampleTicks += fanSampleIntervalTicks; (line 480)
AdvanceFanSample ==
    /\ pc = "advance"
    /\ lastFanSampleTicks' = Add16(lastFanSampleTicks, fanSampleIntervalTicks)
    /\ pc' = "loop"
    /\ UNCHANGED <<irVars, fanAccVars, setupVars, ledVars, outVars, fanCtlVars,
                   histVars, tickCounter, running, ADMUX>>

CheckFan ==
    \/ Fan308 \/ FanReadReadingLow \/ FanReadReadingHigh \/ FanReadOffsetLow
    \/ On311 \/ Off331 \/ FanReadOffsetHigh \/ FanDiffReadingLow
    \/ On313 \/ Off332 \/ KickWatchdog

\* -------------------------------------- the fan controller over any fan sums

\* The per-sample values of the fan reading that are checked: equal to the startup
\* offset, and below it by each threshold or its neighbour.
FanReadingVals ==
    LET o == offsetInit(fan1Kmode)
        c == thermistorConnectedThreshold \div fanSamplesAveraged
        f == thermistorOffThreshold \div fanSamplesAveraged
        n == thermistorOnThreshold \div fanSamplesAveraged
    IN  {o, o - (c - 1), o - c, o - f, o - (f + 1), o - n}

\* Variant A also samples the offset: as at startup, or a little lower.
FanOffsetVals ==
    IF fan1Kmode THEN {offsetInit(fan1Kmode), offsetInit(fan1Kmode) - 12}
    ELSE {offsetInit(fan1Kmode)}

\* The state of Spec after the first four firings of the timer interrupt and the
\* startup wait, at the head of the main loop, with the phototransistor input at 0.
InitFan ==
    /\ fan1Kmode \in BOOLEAN
    /\ thermistorConnectedThreshold =
         (IF fan1Kmode THEN thermistorConnectedThreshold1K
          ELSE thermistorConnectedThreshold4K7) * fanSamplesAveraged
    /\ thermistorOffThreshold =
         (IF fan1Kmode THEN thermistorOffThreshold1K
          ELSE thermistorOffThreshold4K7) * fanSamplesAveraged
    /\ thermistorOnThreshold =
         (IF fan1Kmode THEN thermistorOnThreshold1K
          ELSE thermistorOnThreshold4K7) * fanSamplesAveraged
    /\ fanReadings = [i \in 0..(fanSamplesAveraged - 1) |-> readingInit(fan1Kmode)]
    /\ fanOffsets = [i \in 0..(fanSamplesAveraged - 1) |-> offsetInit(fan1Kmode)]
    /\ fanReadingSum = (fanSamplesAveraged * readingInit(fan1Kmode)) % Word
    /\ fanOffsetSum = (fanSamplesAveraged * offsetInit(fan1Kmode)) % Word
    /\ fanIndex = 0
    /\ fanChangeCount = 0
    /\ lastFanSampleTicks = 0
    /\ running = TRUE
    /\ nearLedReadings = [i \in 0..(cyclesAveragedIR - 1) |-> 0]
    /\ farLedReadings = [i \in 0..(cyclesAveragedIR - 1) |-> 0]
    /\ offReadings = [i \in 0..(cyclesAveragedIR - 1) |-> 0]
    /\ nearLedIndex = 0 /\ farLedIndex = 0 /\ offIndex = 0
    /\ nearSumIR = 0 /\ farSumIR = 0 /\ offSumIR = 0
    /\ tickCounter = 4
    /\ ADMUX = MuxPhototransistor
    /\ farLed = TRUE /\ nearLed = FALSE /\ fanOn = FALSE
    /\ out10K = FALSE /\ out13K = FALSE
    /\ adcBase = 0 /\ adcStep = 0
    /\ pc = "loop"
    /\ locReading = 0 /\ locOffset = 0
    /\ routed = [acc |-> "none", val |-> 0]
    /\ hist = [a \in Accumulators |-> <<>>]
    /\ recent = <<>>
    /\ fanCycle = 0
    /\ sawBackwards = FALSE
    /\ duetInput = TRUE
    /\ level = "none"
    /\ sampledUnder = [far |-> FALSE, near |-> FALSE, mux |-> MuxPhototransistor]
    /\ fanChecks = 0

\* The fan accumulators as the ISR leaves them after a whole window of equal
\* samples (lines 170-190): variant B never writes fanOffsets.
FanSamplesArrive ==
    /\ \/ \E r \in FanReadingVals :
             /\ fanReadings' = [i \in 0..(fanSamplesAveraged - 1) |-> r]
             /\ fanReadingSum' = fanSamplesAveraged * r
             /\ UNCHANGED <<fanOffsets, fanOffsetSum>>
       \/ \E o \in FanOffsetVals :
             /\ fanOffsets' = [i \in 0..(fanSamplesAveraged - 1) |-> o]
             /\ fanOffsetSum' = fanSamplesAveraged * o
             /\ UNCHANGED <<fanReadings, fanReadingSum>>
    /\ UNCHANGED fanIndex
    /\ UNCHANGED <<irVars, setupVars, ledVars, outVars, fanCtlVars, histVars,
                   lastFanSampleTicks, tickCounter, running, ADMUX, pc>>

\* checkFan() called (line 479): by the main loop for the first time, and again
\* after it has returned.
CallCheckFan ==
    /\ pc \in {"loop", "advance"}
    /\ pc' = "fan308"
    /\ UNCHANGED <<irVars, fanAccVars, setupVars, ledVars, outVars, fanCtlVars,
                   histVars, lastFanSampleTicks, tickCounter, running, ADMUX>>

NextFan == FanSamplesArrive \/ CallCheckFan \/ CheckFan

SpecFan == InitFan /\ [][NextFan]_vars

\* ------------------------------------------------------------ the main loop

farThreshold == 10 * cyclesAveragedIR

simpleNearThreshold == 30 * cyclesAveragedIR

saturatedThreshold == 870 * cyclesAveragedIR

\* NotSaturated with the far sum left out of the test.
NotSaturatedNearOnly(near, far) == near < saturatedThreshold

\* The else branch of line 432.
NotSaturated(near, far) == ~(near >= saturatedThreshold \/ far >= saturatedThreshold)

\* BaselineRemoved without the floor at zero: the uint16_t difference.
BaselineRemovedWraps(sum, off) == Sub16(sum, off)

\* (sum > locOffSum) ? sum - locOffSum : 0 (lines 438-439)
BaselineRemoved(sum, off) == IF sum > off THEN Sub16(sum, off) ELSE 0

\* SimpleLevel with the differential classification used in simple mode too.
SimpleLevelWithApproaching(near, far) ==
    IF near > far /\ far >= farThreshold THEN "On"
    ELSE IF far >= farThreshold /\ near * 6 >= far * 5 THEN "Approaching"
    ELSE "Off"

\* Backup mode, lines 445-453: only the near reading is used.
SimpleLevel(near, far) == IF near >= simpleNearThreshold THEN "On" ELSE "Off"

\* DifferentialLevel with the two readings compared without the factors 6 and 5.
DifferentialLevelNoMargin(near, far) ==
    IF near > far /\ far >= farThreshold THEN "On"
    ELSE IF far >= farThreshold /\ near >= far THEN "Approaching"
    ELSE "Off"

\* Differential mode, lines 458-469.  The products are unsigned long (6UL, 5UL):
\* of uint16_t factors, they do not wrap.
DifferentialLevel(near, far) ==
    IF near > far /\ far >= farThreshold THEN "On"
    ELSE IF far >= farThreshold /\ near * 6 >= far * 5 THEN "Approaching"
    ELSE "Off"

\* The SetOutput function lines 432-471 call for a snapshot of the three IR sums
\* and the mode-select input: input low selects the simple mode (line 441).
Level(near, far, off, input) ==
    IF ~NotSaturated(near, far) THEN "Saturated"
    ELSE IF ~input
    THEN SimpleLevel(BaselineRemoved(near, off), BaselineRemoved(far, off))
    ELSE DifferentialLevel(BaselineRemoved(near, off), BaselineRemoved(far, off))

\* cli(); the three sums; sei(); and the choice of the SetOutput function
\* (lines 426-471, up to the first port write).
SenseIR ==
    /\ pc = "loop"
    /\ level' = Level(nearSumIR, farSumIR, offSumIR, duetInput)
    /\ pc' = "out1"
    /\ UNCHANGED <<irVars, fanAccVars, setupVars, ledVars, out10K, out13K,
                   fanCtlVars, histVars, lastFanSampleTicks, tickCounter, running,
                   ADMUX>>

\* FirstWrite with SetOutputOn setting the 10K line before clearing the 13K line.
FirstWriteOnSetsFirst(lev) ==
    CASE lev = "Off" -> [line |-> "10K", high |-> FALSE]
      [] lev = "Approaching" -> [line |-> "10K", high |-> FALSE]
      [] lev = "On" -> [line |-> "10K", high |-> TRUE]
      [] lev = "Saturated" -> [line |-> "10K", high |-> TRUE]

\* The first of the two single-bit port operations of each SetOutput function
\* (lines 350, 359, 368, 377).
FirstWrite(lev) ==
    CASE lev = "Off" -> [line |-> "10K", high |-> FALSE]
      [] lev = "Approaching" -> [line |-> "10K", high |-> FALSE]
      [] lev = "On" -> [line |-> "13K", high |-> FALSE]
      [] lev = "Saturated" -> [line |-> "10K", high |-> TRUE]

\* SecondWrite with SetOutputApproaching and SetOutputOn exchanged.
SecondWriteSwapped(lev) ==
    CASE lev = "Off" -> [line |-> "13K", high |-> FALSE]
      [] lev = "Approaching" -> [line |-> "10K", high |-> TRUE]
      [] lev = "On" -> [line |-> "13K", high |-> TRUE]
      [] lev = "Saturated" -> [line |-> "13K", high |-> TRUE]

\* The second port operation (lines 351, 360, 369, 378).
SecondWrite(lev) ==
    CASE lev = "Off" -> [line |-> "13K", high |-> FALSE]
      [] lev = "Approaching" -> [line |-> "13K", high |-> TRUE]
      [] lev = "On" -> [line |-> "10K", high |-> TRUE]
      [] lev = "Saturated" -> [line |-> "13K", high |-> TRUE]

\* PORTA |= BITVAL(bit) or PORTA &= ~BITVAL(bit) on one of the two output lines.
PortWrite(op) ==
    /\ out10K' = IF op.line = "10K" THEN op.high ELSE out10K
    /\ out13K' = IF op.line = "13K" THEN op.high ELSE out13K

SetOutputFirst ==
    /\ pc = "out1"
    /\ PortWrite(FirstWrite(level))
    /\ pc' = "out2"
    /\ UNCHANGED <<irVars, fanAccVars, setupVars, ledVars, level, fanCtlVars,
                   histVars, lastFanSampleTicks, tickCounter, running, ADMUX>>

SetOutputSecond ==
    /\ pc = "out2"
    /\ PortWrite(SecondWrite(level))
    /\ pc' = "poll"
    /\ UNCHANGED <<irVars, fanAccVars, setupVars, ledVars, level, fanCtlVars,
                   histVars, lastFanSampleTicks, tickCounter, running, ADMUX>>

\* locTickCounter - lastFanSampleTicks >= fanSampleIntervalTicks, in uint16_t
\* (line 477)
FanPollDue(now, last) == Sub16(now, last) >= fanSampleIntervalTicks

\* cli(); locTickCounter = tickCounter; sei(); the test of line 477 and the call
\* of checkFan (lines 474-479).
PollFan ==
    /\ pc = "poll"
    /\ IF FanPollDue(tickCounter, lastFanSampleTicks)
       THEN /\ fanChecks < MaxFanChecks
            /\ fanChecks' = fanChecks + 1
            /\ pc' = "fan308"
       ELSE /\ pc' = "loop"
            /\ UNCHANGED fanChecks
    /\ UNCHANGED <<irVars, fanAccVars, setupVars, ledVars, outVars, fanCtlVars,
                   routed, hist, recent, sampledUnder, lastFanSampleTicks,
                   tickCounter, running, ADMUX>>

\* One pass of for (;;) up to the poll (lines 426-477).
MainLoop == SenseIR \/ SetOutputFirst \/ SetOutputSecond \/ PollFan

\* ------------------------------------------- the main loop over any IR sums

\* The per-sample values of the three IR readings that are checked: around the
\* thresholds 10, 30 and 870, alone and above a baseline of 10.
IRSampleVals(a) ==
    CASE a = "near" -> {0, 5, 9, 10, 11, 20, 21, 29, 30, 39, 40, 869, 870}
      [] a = "far" -> {0, 9, 10, 12, 19, 20, 22, 869, 870}
      [] a = "off" -> {0, 10}

\* A window of samples v, the oldest one larger by e.
Window(v, e) == [i \in 0..(cyclesAveragedIR - 1) |-> IF i = 0 THEN v + e ELSE v]

\* An IR accumulator as the ISR leaves it after a whole window of samples
\* (lines 201-203, 215-217, 229-231), at the point where the main loop is about
\* to read the sums: nothing else reads them.
IRSamplesArrive ==
    /\ pc = "loop"
    /\ \E a \in {"near", "far", "off"} : \E v \in IRSampleVals(a), e \in {0, 1} :
          \/ /\ a = "near"
             /\ nearLedReadings' = Window(v, e)
             /\ nearSumIR' = cyclesAveragedIR * v + e
             /\ UNCHANGED <<farLedReadings, farSumIR, offReadings, offSumIR>>
          \/ /\ a = "far"
             /\ farLedReadings' = Window(v, e)
             /\ farSumIR' = cyclesAveragedIR * v + e
             /\ UNCHANGED <<nearLedReadings, nearSumIR, offReadings, offSumIR>>
          \/ /\ a = "off"
             /\ offReadings' = Window(v, e)
             /\ offSumIR' = cyclesAveragedIR * v + e
             /\ UNCHANGED <<nearLedReadings, nearSumIR, farLedReadings, farSumIR>>
    /\ UNCHANGED <<nearLedIndex, farLedIndex, offIndex>>
    /\ UNCHANGED <<fanAccVars, setupVars, ledVars, outVars, fanCtlVars, histVars,
                   lastFanSampleTicks, tickCounter, running, ADMUX, pc>>

\* The mode-select input pin changes (read at line 441).
DuetInputChanges ==
    /\ duetInput' = ~duetInput
    /\ UNCHANGED <<thermistorConnectedThreshold, thermistorOnThreshold,
                   thermistorOffThreshold, fan1Kmode, adcBase, adcStep>>
    /\ UNCHANGED <<irVars, fanAccVars, ledVars, outVars, fanCtlVars, histVars,
                   lastFanSampleTicks, tickCounter, running, ADMUX, pc>>

NextSensor == IRSamplesArrive \/ DuetInputChanges \/ MainLoop

\* The main loop entered as in InitFan, on the board with the 4K7 resistor.
InitSensor == InitFan /\ ~fan1Kmode

SpecSensor == InitSensor /\ [][NextSensor]_vars

\* ------------------------------------------------------- the whole program

\* The timer interrupt runs no further ahead of the fan poll than this.
MaxLagTicks == 1100

\* The ticks after which the ISR writes the same slot of every accumulator again:
\* the fan cursor advances once in 32 ticks at the slowest (lines 173-177).
SchedulePeriodTicks == 32 * fanSamplesAveraged

AllSlots(slots, n, v) == \A i \in 0..(n - 1) : slots[i] = v

\* The input is constant and every window the ISR writes holds nothing but the
\* sample it stores of that input: SchedulePeriodTicks firings then leave every
\* slot, sum, cursor, LED and mux as they find them.
Steady ==
    /\ running /\ adcStep = 0
    /\ AllSlots(nearLedReadings, cyclesAveragedIR, ADC)
    /\ AllSlots(farLedReadings, cyclesAveragedIR, ADC)
    /\ AllSlots(offReadings, cyclesAveragedIR, ADC)
    /\ AllSlots(fanReadings, fanSamplesAveraged, FanSample(fan1Kmode, ADC))
    /\ fan1Kmode => AllSlots(fanOffsets, fanSamplesAveraged, FanSample(fan1Kmode, ADC))
    /\ \A a \in {"near", "far", "off", "fan"} : Len(hist[a]) = Capacity(a)
    /\ fan1Kmode => Len(hist["fanOffset"]) = Capacity("fanOffset")
    /\ Len(recent) = 16

\* SchedulePeriodTicks firings of the ISR in a row (lines 150-283), in a steady
\* state: only the tick counter has changed (line 278).
TimerPeriod ==
    /\ Steady
    /\ tickCounter' = Add16(tickCounter, SchedulePeriodTicks)
    /\ UNCHANGED <<irVars, fanAccVars, setupVars, ledVars, outVars, fanCtlVars,
                   histVars, lastFanSampleTicks, running, ADMUX, pc>>

\* The firings between the ticks at which single firings are followed.
TimerISRPeriod == ~TickInBounds /\ TimerPeriod

\* The timer interrupt while the main loop keeps up with it.
TimerRuns ==
    /\ pc \notin {"wait", "start"} =>
           Sub16(tickCounter, lastFanSampleTicks) < MaxLagTicks
    /\ TimerISR \/ TimerISRPeriod

NextLoop ==
    \/ TimerRuns \/ WaitTicks \/ StartRunning
    \/ MainLoop \/ CheckFan \/ AdvanceFanSample

\* The board of either variant, the phototransistor and the thermistor inputs
\* held at 0.
InitLoop == Init /\ adcBase = 0 /\ adcStep = 0

SpecLoop == InitLoop /\ [][NextLoop]_vars

\* ------------------------------------- the whole program, outputs changing

\* The board of either variant with its inputs held at 0, where the level stays
\* Off and the fan is switched on for a disconnected thermistor, or at full
\* scale, where the level becomes Saturated.
InitPorts == Init /\ adcBase \in {0, 1023} /\ adcStep = 0

SpecPorts == InitPorts /\ [][NextLoop]_vars

\* ------------------------------------------- the whole program, scheduled

\* The calls of checkFan that are followed.
MaxLiveChecks == 3

\* The timer interrupt, free to fire whatever the main loop does: firing by
\* firing until the windows are full, a schedule period at a time from then on.
TimerFilling == ~Steady /\ TimerISR

TimerLive == TimerFilling \/ TimerPeriod

\* main from sei() on: the startup wait, the main loop and checkFan.
ForegroundLive ==
    /\ WaitTicks \/ StartRunning \/ MainLoop \/ CheckFan \/ AdvanceFanSample
    /\ fanChecks' <= MaxLiveChecks

NextLive == TimerLive \/ ForegroundLive

\* The 4K7 board with its inputs held at 0.
InitLive == InitLoop /\ ~fan1Kmode

\* The compare match recurs for as long as the timer runs, and main runs whenever
\* no interrupt is being served.
SpecLive ==
    /\ InitLive /\ [][NextLive]_vars
    /\ WF_vars(TimerLive) /\ WF_vars(ForegroundLive)

\* ================================================================== claims

TimerFired == tickCounter' # tickCounter

\* The phase the next firing executes, and the phase the last firing executed.
Phase == tickCounter % 16

Bit4 == (tickCounter \div 16) % 2

LastPhase == (tickCounter + 15) % 16

LastBit4 == ((tickCounter + Word - 1) \div 16) % 2

SeqSum(s) == SumOver([i \in 0..(Len(s) - 1) |-> s[i + 1]], Len(s))

Count(s, a) == Cardinality({i \in 1..Len(s) : s[i] = a})

SlotsOf(a) ==
    CASE a = "near" -> nearLedReadings
      [] a = "far" -> farLedReadings
      [] a = "off" -> offReadings
      [] a = "fan" -> fanReadings
      [] a = "fanOffset" -> fanOffsets

SumOf(a) ==
    CASE a = "near" -> nearSumIR
      [] a = "far" -> farSumIR
      [] a = "off" -> offSumIR
      [] a = "fan" -> fanReadingSum
      [] a = "fanOffset" -> fanOffsetSum

Fill(a) ==
    CASE a = "fan" -> readingInit(fan1Kmode)
      [] a = "fanOffset" -> offsetInit(fan1Kmode)
      [] OTHER -> 0

\* C1: between ISR executions, each of the five accumulators has its sum equal to
\* the exact arithmetic sum of its slots, and every slot is at most 1023.
C1_SumIsSumOfSlots ==
    \A a \in Accumulators :
        /\ SumOf(a) = SumOver(SlotsOf(a), Capacity(a))
        /\ \A i \in 0..(Capacity(a) - 1) : SlotsOf(a)[i] \in 0..1023

\* C1 witness: every accumulator has been written a full window or more, with
\* samples that are not all zero.
C1_Witness ==
    /\ running
    /\ \A a \in Accumulators : Len(hist[a]) = Capacity(a)
    /\ nearSumIR > 0 /\ fanOffsetSum # fanSamplesAveraged * offsetInit(fan1Kmode)

\* C2: once n >= 1 samples have been routed into an accumulator of capacity N, its
\* sum is the sum of the last min(n, N) of them plus (N - min(n, N)) times its
\* initial fill value (hist keeps exactly the last min(n, N) samples).
C2_FifoWindow ==
    \A a \in Accumulators :
        Len(hist[a]) >= 1 =>
            SumOf(a) = SeqSum(hist[a]) + (Capacity(a) - Len(hist[a])) * Fill(a)

\* C2 witness: variant A, a ramp input, both fan accumulators past a full window
\* with the shared cursor wrapped, and the IR cursors wrapped many times.
C2_Witness ==
    /\ fan1Kmode /\ adcStep = 1
    /\ Len(hist["fan"]) = fanSamplesAveraged
    /\ Len(hist["fanOffset"]) = fanSamplesAveraged
    /\ Len(hist["near"]) = cyclesAveragedIR
    /\ fanIndex = 1
    /\ tickCounter > 32 * (fanSamplesAveraged + 1)

Pushed(slots, index, sum, n, v) ==
    /\ slots' = [slots EXCEPT ![index] = v]
    /\ index' = (index + 1) % n
    /\ sum' = sum - slots[index] + v

NearKept == UNCHANGED <<nearLedReadings, nearLedIndex, nearSumIR>>

FarKept == UNCHANGED <<farLedReadings, farLedIndex, farSumIR>>

OffKept == UNCHANGED <<offReadings, offIndex, offSumIR>>

C3_Step ==
    (TimerFired /\ running) =>
        /\ Phase \in {1, 4, 7, 10} =>
             /\ Pushed(offReadings, offIndex, offSumIR, cyclesAveragedIR, ADC)
             /\ NearKept /\ FarKept /\ UNCHANGED fanAccVars
        /\ Phase \in {2, 5, 8, 11} =>
             /\ Pushed(farLedReadings, farLedIndex, farSumIR, cyclesAveragedIR, ADC)
             /\ NearKept /\ OffKept /\ UNCHANGED fanAccVars
        /\ Phase \in {3, 6, 9, 12} =>
             /\ Pushed(nearLedReadings, nearLedIndex, nearSumIR, cyclesAveragedIR, ADC)
             /\ FarKept /\ OffKept /\ UNCHANGED fanAccVars
        /\ Phase \in {13, 14, 15} => UNCHANGED <<irVars, fanAccVars>>
        /\ Phase = 0 => UNCHANGED irVars
        /\ Len(recent') = 16 =>
             /\ Count(recent', "near") = 4
             /\ Count(recent', "far") = 4
             /\ Count(recent', "off") = 4

\* C3: with running set, a firing at tick t writes the ADC value into exactly one IR
\* accumulator chosen by t mod 16 (off for 1,4,7,10; far for 2,5,8,11; near for
\* 3,6,9,12), changes no accumulator in phases 13, 14 and 15, and any 16 consecutive
\* firings put exactly 4 samples into each of near, far and off.
C3_PhaseRouting == [][C3_Step]_vars

\* C3 witness: 16 or more firings with running set, the last one phase 12 routing
\* into the near accumulator.
C3_Witness ==
    /\ running /\ Len(recent) = 16
    /\ Phase = 13 /\ routed.acc = "near"

\* The statement of C4 as claimed, for both hardware variants.
C4_StepAsClaimed ==
    (TimerFired /\ running /\ Phase = 0) =>
        IF Bit4 = 0
        THEN /\ fanReadings'[fanIndex] = routed'.val
             /\ fanIndex' = (fanIndex + 1) % fanSamplesAveraged
             /\ UNCHANGED <<fanOffsets, fanOffsetSum>>
        ELSE /\ fanOffsets'[fanIndex] = routed'.val
             /\ fanIndex' = fanIndex
             /\ UNCHANGED <<fanReadings, fanReadingSum>>

\* C4 as claimed: at phase 0 with running set the sample goes to the fan active
\* accumulator when tick bit 4 is 0 and to the offset accumulator when it is 1, the
\* shared cursor advancing only on the former, in both hardware variants.
C4_AsClaimed == [][C4_StepAsClaimed]_vars

\* A signed 10-bit reading as an unsigned one biased by 512.
Biased(v) == (v + 512) % 1024

C4_StepAmended ==
    TimerFired =>
        /\ (running /\ Phase = 0 /\ fan1Kmode) =>
             IF Bit4 = 0
             THEN /\ Pushed(fanReadings, fanIndex, fanReadingSum, fanSamplesAveraged,
                            Biased(ADC))
                  /\ UNCHANGED <<fanOffsets, fanOffsetSum>>
             ELSE /\ fanOffsets' = [fanOffsets EXCEPT ![fanIndex] = Biased(ADC)]
                  /\ fanOffsetSum' = fanOffsetSum - fanOffsets[fanIndex] + Biased(ADC)
                  /\ UNCHANGED <<fanReadings, fanReadingSum, fanIndex>>
        /\ (running /\ Phase = 0 /\ ~fan1Kmode) =>
             /\ Pushed(fanReadings, fanIndex, fanReadingSum, fanSamplesAveraged, ADC)
             /\ UNCHANGED <<fanOffsets, fanOffsetSum>>
        /\ ~(running /\ Phase = 0) => UNCHANGED fanAccVars

\* C4 amended: in variant A (1K, differential) phase 0 with running set writes the
\* active accumulator and advances the shared cursor when tick bit 4 is 0, and
\* writes the offset accumulator, cursor unmoved, when bit 4 is 1; in variant B
\* (4K7, single-ended) every pass through phase 0 writes the active accumulator and
\* advances the cursor, and the offset accumulator is never written.
C4_FanRouting == [][C4_StepAmended]_vars

\* C4 witness: variant B just after a phase 0 with tick bit 4 set, the sample in
\* the active accumulator and the offset accumulator still as filled at startup.
C4_Witness ==
    /\ ~fan1Kmode /\ running
    /\ Phase = 1 /\ LastBit4 = 1
    /\ routed.acc = "fan"
    /\ Len(hist["fan"]) >= 3

FanMux ==
    IF fan1Kmode THEN (IF LastBit4 = 1 THEN MuxDiffAdc3Pos ELSE MuxDiffAdc4Pos)
    ELSE MuxThermistorSingle

C6_State ==
    IF tickCounter # 0 /\ LastPhase \in 11..14 THEN ADMUX = FanMux
    ELSE ADMUX = MuxPhototransistor

C6_Step ==
    /\ C6_State /\ C6_State'
    /\ ADMUX' # ADMUX => TimerFired /\ Phase \in {11, 15}
    /\ (TimerFired /\ Phase = 15) => ADMUX' = MuxPhototransistor
    /\ (TimerFired /\ Phase = 11 /\ ~fan1Kmode) => ADMUX' = MuxThermistorSingle
    /\ (TimerFired /\ Phase = 11 /\ fan1Kmode) =>
         ADMUX' = IF Bit4 = 1 THEN MuxDiffAdc3Pos ELSE MuxDiffAdc4Pos

\* C6: the ISR changes ADMUX only in phases 11 and 15: phase 11 selects the fan
\* input (variant B the single-ended thermistor channel, variant A the differential
\* pair with the polarity given by tick bit 4), phase 15 the phototransistor; so the
\* mux selects the fan input after phases 11..14 and the phototransistor otherwise.
C6_MuxByPhase == [][C6_Step]_vars

\* C6 witness: variant A in the second cycle with the reversed polarity selected,
\* after the opposite polarity was selected in the first cycle.
C6_Witness ==
    /\ fan1Kmode /\ tickCounter = 16 + 13
    /\ ADMUX = MuxDiffAdc3Pos

C7_Step ==
    TimerFired =>
        /\ ~running => UNCHANGED <<irVars, fanAccVars>>
        /\ farLed' = IF Phase \in {0, 3, 6, 9} THEN TRUE
                     ELSE IF Phase \in {1, 4, 7, 10} THEN FALSE ELSE farLed
        /\ nearLed' = IF Phase \in {1, 4, 7, 10} THEN TRUE
                      ELSE IF Phase \in {2, 5, 8, 11} THEN FALSE ELSE nearLed
        /\ ADMUX' = IF Phase = 15 THEN MuxPhototransistor
                    ELSE IF Phase = 11
                    THEN (IF ~fan1Kmode THEN MuxThermistorSingle
                          ELSE IF Bit4 = 1 THEN MuxDiffAdc3Pos ELSE MuxDiffAdc4Pos)
                    ELSE ADMUX
        /\ tickCounter' = (tickCounter + 1) % Word

\* C7: while running is false a firing in any phase leaves every accumulator slot,
\* sum and cursor unchanged; with running false or true alike it makes the LED
\* change, the mux change and the tick increment that its phase prescribes.
C7_RunningGatesOnlyAccumulators == [][C7_Step]_vars

\* C7 witness: running still false after firings in every phase 0..15 and a second
\* phase 0, with every accumulator as initialised.
C7_Witness ==
    /\ ~running /\ tickCounter = 17
    /\ nearSumIR = 0 /\ farSumIR = 0 /\ offSumIR = 0
    /\ fanReadingSum = fanSamplesAveraged * readingInit(fan1Kmode)
    /\ farLed

\* The off-eligible range of diff = offsetSum - activeSum.
InOffRange(diff) ==
    thermistorConnectedThreshold <= diff /\ diff <= thermistorOffThreshold

C8_Step ==
    /\ fanCycle' \in 1..(fanOnSeconds * fanSampleFreq - 1) => fanOn'
    /\ (fanOn /\ ~fanOn') =>
         /\ pc = "on313rhi"
         /\ fanChangeCount = 0
         /\ fanCycle >= fanOnSeconds * fanSampleFreq

\* C8: with the invocation that switches the fan on as check-cycle 0, the fan is
\* still on after each of the check-cycles 1..31, whatever the sums read; it is
\* switched off only by checkFan, only when checkFan finds the hold counter zero,
\* and in check-cycle 32 at the earliest.
C8_FanHold == [][C8_Step]_vars

\* C8 witness: the fan switched off in check-cycle 32, the earliest possible.
C8_Witness ==
    /\ ~fanOn /\ pc = "wdt"
    /\ fanCycle = fanOnSeconds * fanSampleFreq

\* C9: when a checkFan invocation that read fanReadingSum >= fanOffsetSum has made
\* its decision, the fan is on, whatever the thresholds and the hold counter.
C9_BackwardsTurnsFanOn ==
    (sawBackwards /\ pc \in {"wdt", "advance"}) => fanOn

\* C9 witness: an invocation that found the fan off and the reading at or above
\* the offset has just switched the fan on.
C9_Witness ==
    /\ sawBackwards /\ pc = "wdt"
    /\ fanOn /\ fanCycle = 0 /\ fanChangeCount = FanHoldCount

\* C10 as claimed: an invocation whose diff lies in the off-eligible range leaves
\* the hold counter unchanged.
C10_AsClaimed ==
    [][(pc \in {"on313rhi", "off332rhi"} /\ pc' = "wdt" /\ InOffRange(FanDiff))
          => fanChangeCount' = fanChangeCount]_vars

C10_Step ==
    /\ fanChangeCount' < fanChangeCount =>
         /\ pc = "on313rhi" /\ fanOn
         /\ InOffRange(FanDiff)
         /\ fanChangeCount' = fanChangeCount - 1
    /\ (pc = "on313rhi" /\ pc' = "wdt" /\ InOffRange(FanDiff)) =>
         IF fanChangeCount = 0
         THEN fanChangeCount' = 0 /\ ~fanOn'
         ELSE fanChangeCount' = fanChangeCount - 1 /\ fanOn'

\* C10 amended: the hold counter is never decremented by an invocation whose diff
\* lies outside the off-eligible range; an invocation made with the fan on and
\* connectedThreshold <= diff <= offThreshold decrements it by exactly one when it
\* is non-zero, and when it is zero leaves it zero and switches the fan off.
C10_HoldCounterDecrement == [][C10_Step]_vars

\* C10 witness: the first invocation after the fan was switched on found diff in
\* the off-eligible range and decremented the hold counter.
C10_Witness ==
    /\ fanOn /\ pc = "wdt" /\ fanCycle = 1
    /\ fanChangeCount = FanHoldCount - 1

\* The positions of checkFan between the first byte it reads of the fan sums and
\* the decision it takes on them.
MidFanRead ==
    {"on311hi", "on311olo", "on311ohi", "on313lo", "on313hi", "on313rlo",
     "on313rhi", "off331hi", "off331olo", "off331ohi", "off332lo", "off332hi",
     "off332rlo", "off332rhi"}

\* C11 as claimed: the foreground reads the accumulator sums with the timer
\* interrupt masked, so no ISR update of the fan sums occurs between or during the
\* reads that feed one decision of checkFan (the three IR sums are read in one
\* step, between cli() and sei()).
C11_AsClaimed ==
    [][(pc \in MidFanRead) =>
          (fanReadingSum' = fanReadingSum /\ fanOffsetSum' = fanOffsetSum)]_vars

\* The positions of the foreground inside an invocation of checkFan made by the
\* main loop, up to the advance of lastFanSampleTicks that follows it.
InFanCheck == pc \notin {"wait", "start", "loop", "out1", "out2", "poll"}

\* After k completed invocations lastFanSampleTicks is 500 * k mod 2^16.
C12_State ==
    lastFanSampleTicks =
        (500 * (IF InFanCheck THEN fanChecks - 1 ELSE fanChecks)) % 65536

C12_Step ==
    /\ C12_State /\ C12_State'
    /\ (pc' = "fan308" /\ pc # "fan308") =>
         /\ pc = "poll"
         /\ (tickCounter - lastFanSampleTicks) % 65536 >= 500
         /\ fanChecks' = fanChecks + 1
    /\ (pc = "poll" /\ pc' # "poll" /\ (tickCounter - lastFanSampleTicks) % 65536 < 500)
         => (pc' = "loop" /\ fanChecks' = fanChecks)
    /\ (pc' = "poll" /\ pc # "poll") => pc = "out2"
    /\ (pc = "advance" /\ pc' # "advance") =>
         /\ pc' = "loop"
         /\ lastFanSampleTicks' = (lastFanSampleTicks + 500) % 65536
    /\ lastFanSampleTicks' # lastFanSampleTicks => pc = "advance"

\* C12: checkFan is invoked only from the poll of a pass of the main loop whose
\* tick snapshot satisfies (tick - lastFanSampleTicks) mod 2^16 >= 500, a pass polls
\* once, and the return from each invocation adds exactly 500 to
\* lastFanSampleTicks mod 2^16, which nothing else changes: after k invocations
\* lastFanSampleTicks = 500 * k mod 2^16.
C12_FanPollInterval == [][C12_Step]_vars

\* C12 witness: the 132nd invocation, made after the tick counter has wrapped and
\* before lastFanSampleTicks has, with the loop more than two intervals behind.
C12_Witness ==
    /\ pc = "fan308" /\ fanChecks = 132
    /\ tickCounter < lastFanSampleTicks
    /\ (tickCounter - lastFanSampleTicks) % 65536 >= 1000

\* The step of the main loop that takes the snapshot of the IR sums and selects
\* the level.
Sensed == pc = "loop" /\ pc' = "out1"

C13_Step ==
    (Sensed /\ (nearSumIR >= 870 * 8 \/ farSumIR >= 870 * 8)) => level' = "Saturated"

\* C13: a pass of the main loop whose snapshot has the near sum or the far sum at
\* or above 870 * 8 selects the level Saturated, whatever the off sum, the
\* baseline-subtracted values and the mode-select input are.
C13_SaturationFirst == [][C13_Step]_vars

\* C13 witness: Saturated selected in simple mode on a far sum of 870 * 8 alone,
\* with the near sum below the off sum.
C13_Witness ==
    /\ pc = "out1" /\ level = "Saturated"
    /\ ~duetInput
    /\ farSumIR = 870 * 8 /\ nearSumIR < offSumIR

\* max(0, sum - off), in the integers.
Floored(sum, off) == IF sum - off > 0 THEN sum - off ELSE 0

Unsaturated == nearSumIR < 870 * 8 /\ farSumIR < 870 * 8

C14_Step ==
    (Sensed /\ duetInput /\ Unsaturated) =>
        LET n == Floored(nearSumIR, offSumIR)
            f == Floored(farSumIR, offSumIR)
        IN  level' = IF n > f /\ f >= 10 * 8 THEN "On"
                     ELSE IF f >= 10 * 8 /\ 6 * n >= 5 * f THEN "Approaching"
                     ELSE "Off"

\* C14: in differential mode and without saturation, with near' = max(0, near - off)
\* and far' = max(0, far - off) taken in the integers, the level selected is On iff
\* near' > far' and far' >= farThreshold, otherwise Approaching iff
\* far' >= farThreshold and 6 * near' >= 5 * far', otherwise Off.
C14_DifferentialLevels == [][C14_Step]_vars

\* C14 witness: Approaching selected on the boundary 6 * near' = 5 * far', above a
\* baseline that is not zero.
C14_Witness ==
    /\ pc = "out1" /\ level = "Approaching" /\ duetInput
    /\ offSumIR > 0
    /\ 6 * (nearSumIR - offSumIR) = 5 * (farSumIR - offSumIR)

C15_Step ==
    (Sensed /\ ~duetInput) =>
        /\ level' # "Approaching"
        /\ level' = IF ~Unsaturated THEN "Saturated"
                    ELSE IF Floored(nearSumIR, offSumIR) >= 30 * 8 THEN "On"
                    ELSE "Off"

\* C15: a pass of the main loop that reads the mode-select input low (simple mode)
\* never selects Approaching: it selects Saturated, or On when
\* near' >= simpleNearThreshold, or Off otherwise.
C15_SimpleModeLevels == [][C15_Step]_vars

\* C15 witness: simple mode selects Off on sums that differential mode classifies
\* as Approaching (far' >= farThreshold, near' <= far', 6 * near' >= 5 * far').
C15_Witness ==
    /\ pc = "out1" /\ level = "Off" /\ ~duetInput
    /\ Unsaturated
    /\ Floored(farSumIR, offSumIR) >= 10 * 8
    /\ Floored(nearSumIR, offSumIR) <= Floored(farSumIR, offSumIR)
    /\ 6 * Floored(nearSumIR, offSumIR) >= 5 * Floored(farSumIR, offSumIR)

\* The code of each level on the two output lines, as <<13K line, 10K line>>.
LevelCode ==
    [Off |-> <<FALSE, FALSE>>, Approaching |-> <<TRUE, FALSE>>,
     On |-> <<FALSE, TRUE>>, Saturated |-> <<TRUE, TRUE>>]

OutputUpdated == pc \notin {"out1", "out2"} /\ level # "none"

\* C16: once an output update is complete, and until the next level is selected,
\* the two output lines hold the code of the selected level, whatever they held
\* before: Off = (13K low, 10K low), Approaching = (13K high, 10K low),
\* On = (13K low, 10K high), Saturated = (13K high, 10K high); the four codes are
\* pairwise distinct.
C16_OutputCodes ==
    /\ OutputUpdated => <<out13K, out10K>> = LevelCode[level]
    /\ \A a, b \in DOMAIN LevelCode : a # b => LevelCode[a] # LevelCode[b]

\* C16 witness: an update to Approaching has just completed.
C16_Witness ==
    /\ pc = "poll" /\ level = "Approaching"
    /\ out13K /\ ~out10K

C17_Bounded ==
    /\ nearSumIR <= 8 * 1023 /\ farSumIR <= 8 * 1023 /\ offSumIR <= 8 * 1023
    /\ fanReadingSum <= 16 * 1023 /\ fanOffsetSum <= 16 * 1023

\* What sum - slot + sample is in the integers, the sample being what the slot
\* holds after the step.
Exact(sum, slots, newSlots, cursor) == sum - slots[cursor] + newSlots[cursor]

NoWrap(sum, newSum, slots, newSlots, cursor) ==
    /\ sum >= slots[cursor]
    /\ Exact(sum, slots, newSlots, cursor) < 65536
    /\ newSum = Exact(sum, slots, newSlots, cursor)

C17_Step ==
    /\ NoWrap(nearSumIR, nearSumIR', nearLedReadings, nearLedReadings', nearLedIndex)
    /\ NoWrap(farSumIR, farSumIR', farLedReadings, farLedReadings', farLedIndex)
    /\ NoWrap(offSumIR, offSumIR', offReadings, offReadings', offIndex)
    /\ NoWrap(fanReadingSum, fanReadingSum', fanReadings, fanReadings', fanIndex)
    /\ NoWrap(fanOffsetSum, fanOffsetSum', fanOffsets, fanOffsets', fanIndex)

\* C17: for the 10-bit ADC values of every waveform, each IR sum stays at most
\* 8 * 1023 and each fan sum at most 16 * 1023, and every sum - oldSlot + newSample
\* of the ISR is exact: the sum is at least the slot removed and the result is
\* below 2^16, the samples of the differential variant (XOR 0x200) included.
C17_SumsBounded == []C17_Bounded /\ [][C17_Step]_vars

\* C17 witness: the differential variant with both fan sums at 16 * 1023, every
\* slot holding 511 XOR 0x200, a reading just stored.
C17_Witness ==
    /\ fan1Kmode /\ running
    /\ routed = [acc |-> "fan", val |-> 1023]
    /\ fanReadingSum = 16 * 1023 /\ fanOffsetSum = 16 * 1023

\* The configuration a sample of each accumulator is to be taken under.
SampledFor(acc) ==
    CASE acc = "near" -> [far |-> FALSE, near |-> TRUE, mux |-> 1]
      [] acc = "far" -> [far |-> TRUE, near |-> FALSE, mux |-> 1]
      [] acc = "off" -> [far |-> FALSE, near |-> FALSE, mux |-> 1]
      [] acc = "fan" -> [far |-> FALSE, near |-> FALSE,
                         mux |-> IF fan1Kmode THEN 19 ELSE 3]
      [] acc = "fanOffset" -> [far |-> FALSE, near |-> FALSE, mux |-> 51]

\* sampledUnder, before a firing, is the configuration of the conversion whose
\* result the firing reads.
C19_Step ==
    (tickCounter' # tickCounter /\ tickCounter >= 4 /\ routed'.acc # "none") =>
        sampledUnder = SampledFor(routed'.acc)

\* C19: with each compare match starting a conversion that samples under the LED
\* and mux configuration left by the previous firing, and the result read by the
\* next firing, from tick 4 on every near value was sampled with near LED on, far
\* LED off and the mux on the phototransistor; every far value with far LED on and
\* near LED off; every off value with both LEDs off, mux on the phototransistor;
\* every fan value with both LEDs off and the mux on the fan input, the active
\* accumulator of the differential variant always from one polarity and its
\* offset accumulator always from the opposite one.
C19_SampledUnderConfig == [][C19_Step]_vars

\* C19 witness: the differential variant has stored a second offset sample, after
\* two active samples and eight of the near LED.
C19_Witness ==
    /\ fan1Kmode /\ running
    /\ routed.acc = "fanOffset" /\ Len(hist["fanOffset"]) >= 2
    /\ Len(hist["fan"]) >= 2 /\ Len(hist["near"]) >= 8
    /\ tickCounter % 32 = 17

\* The accumulator written by the firing at each place of the 32-tick schedule.
AccAt(place) ==
    CASE place = 0 -> "fan"
      [] place = 16 -> IF fan1Kmode THEN "fanOffset" ELSE "fan"
      [] place % 16 \in {3, 6, 9, 12} -> "near"
      [] place % 16 \in {1, 4, 7, 10} -> "off"
      [] place % 16 \in {2, 5, 8, 11} -> "far"
      [] OTHER -> "none"

\* One firing, or the firings of one whole period of the schedule in the steady state.
C20_Step ==
    TimerFired =>
        \/ /\ tickCounter' = (tickCounter + 1) % 65536
           /\ tickCounter' % 32 = ((tickCounter % 32) + 1) % 32
           /\ tickCounter' % 16 = ((tickCounter % 16) + 1) % 16
           /\ (tickCounter' \div 16) % 2 =
                 IF tickCounter % 16 = 15 THEN 1 - ((tickCounter \div 16) % 2)
                 ELSE (tickCounter \div 16) % 2
           /\ running => routed'.acc = AccAt(tickCounter % 32)
           /\ farLed' = (tickCounter % 16 \in {0, 3, 6, 9})
           /\ nearLed' = (tickCounter % 16 \in {1, 4, 7, 10})
        \/ /\ ~TickInBounds
           /\ tickCounter' = (tickCounter + 512) % 65536
           /\ routed' = routed /\ farLed' = farLed /\ nearLed' = nearLed

\* C20: each firing of the ISR increments the tick counter by exactly 1 modulo
\* 2^16 and executes the phase tick mod 16, so that successive firings see
\* tick mod 32 advance by 1 modulo 32, phases run 0, 1, ..., 15, 0, ... and the
\* bit-4 half-cycle alternates every 16 ticks, with no phase skipped or repeated
\* when the counter wraps from 65535 to 0.
C20_TickAndPhase == [][C20_Step]_vars

\* C20 witness: the firing after the wrap from 65535 to 0 has executed phase 0
\* of the first half-cycle.
C20_Witness ==
    /\ tickCounter = 1 /\ running /\ fanChecks > 100
    /\ routed.acc = "fan" /\ farLed

\* The main loop has passed the startup wait.
Started == pc \notin {"wait", "start"}

\* Every call of checkFan reaches wdt_reset().
EveryCallKicks == (pc = "fan308") ~> (pc = "wdt")

PollNotLapped == Sub16(tickCounter, lastFanSampleTicks) < Word - fanSampleIntervalTicks

FanLineWriters == {"on313rhi", "off331ohi", "off332rhi"}

\* What the last firing of the ISR left on the near LED line (lines 220, 233, 244).
NearLedAsWritten == nearLed = (tickCounter # 0 /\ LastPhase \in {1, 4, 7, 10})

C21_Step ==
    /\ NearLedAsWritten /\ NearLedAsWritten'
    /\ TimerFired =>
          /\ out10K' = out10K /\ out13K' = out13K /\ fanOn' = fanOn
          /\ pc' = pc
    /\ ~TimerFired => nearLed' = nearLed /\ farLed' = farLed
    /\ fanOn' # fanOn => pc \in FanLineWriters
    /\ out10K' # out10K => pc \in {"out1", "out2"} /\ out13K' = out13K
    /\ out13K' # out13K => pc \in {"out1", "out2"} /\ out10K' = out10K

\* C21: with every single-bit port operation atomic, no step disturbs a line it
\* does not own, however the ISR is interleaved with the main loop, the two
\* operations of an output update included: the near LED line always holds what
\* the ISR last wrote and no step of the main loop or of checkFan changes an LED
\* line; the fan line changes only in the steps of checkFan that write it; the
\* output lines change only in the port operations of the main loop, one line at
\* a time; and a firing of the ISR changes neither output line nor the fan line.
C21_PortLineOwnership == [][C21_Step]_vars

\* C21 witness: between the two port operations of the update from Off to
\* Saturated (10K line set, 13K line not yet), with the fan switched on by
\* checkFan and the near LED switched on by the ISR.
C21_Witness ==
    /\ pc = "out2" /\ level = "Saturated"
    /\ out10K /\ ~out13K
    /\ fanOn /\ nearLed

====
